---- MODULE Spec2Model ----
(***************************************************************************)
(* Travel Memory API (src/memory_api.py): two module-level dictionaries,   *)
(* user_profiles and sessions, and the FastAPI route handlers over them.   *)
(*                                                                         *)
(* Every handler is an `async def` that never suspends (the only await,    *)
(* in get_assumptions, is of get_profile, which itself never suspends), so *)
(* on the event loop each handler runs to completion before the next one   *)
(* starts: one action per handler.                                         *)
(*                                                                         *)
(* Encoding of Python values:                                              *)
(*   None            <<>>            (None)                                *)
(*   Optional[T] v   <<v>>           (Some(v))                             *)
(*   str, int, bool  themselves, for fields that are never None            *)
(*   List[str]       a sequence of strings                                 *)
(*   dict            user_profiles: a sequence of key/value pairs in       *)
(*                   insertion order, which list(user_profiles.keys())     *)
(*                   returns; sessions, trip_slots, request bodies: a      *)
(*                   function on the keys (their order is never read:      *)
(*                   only `in`, [], len and item assignment are used)      *)
(* String literals are ASCII only: the bullet U+2022 of formatted_text is  *)
(* written "*" and the rupee sign U+20B9 is written "Rs".                  *)
(***************************************************************************)
EXTENDS Naturals, Sequences, FiniteSets, TLC

VARIABLES user_profiles, sessions, request, response

vars == <<user_profiles, sessions, request, response>>

(* Bounds of the model. *)
MaxUsers == 1
MaxSessions == 1
MaxTime == 2
MaxListLen == 2

(***************************************************************************)
(* Python values.                                                          *)
(***************************************************************************)
None == <<>>

Some(v) == <<v>>

\* bool(x) of an Optional[str]: None and "" are falsy.
Truthy(o) == o # None /\ o # Some("")

\* {} as a function on no keys.
NoKeys == [k \in {} |-> None]

\* d[k] = v on a dict whose key order is not kept.
SetItem(d, k, v) == [j \in DOMAIN d \cup {k} |-> IF j = k THEN v ELSE d[j]]

\* body.get(f, default) of a JSON object.
FieldOr(body, f, default) == IF f \in DOMAIN body THEN body[f] ELSE default

(***************************************************************************)
(* The insertion-ordered dict of user_profiles.                            *)
(***************************************************************************)
EmptyDict == <<>>

Keys(d) == [i \in 1..Len(d) |-> d[i].key]

Has(d, k) == \E i \in 1..Len(d) : d[i].key = k

Get(d, k) == d[CHOOSE i \in 1..Len(d) : d[i].key = k].value

\* d[k] = v: an existing key keeps its place, a new key goes last.
Put(d, k, v) ==
  IF Has(d, k)
  THEN [i \in 1..Len(d) |-> IF d[i].key = k THEN [key |-> k, value |-> v] ELSE d[i]]
  ELSE Append(d, [key |-> k, value |-> v])

(***************************************************************************)
(* Models (pydantic): a request body is a JSON object, a function on the   *)
(* keys it gives; the model fills the defaults of the class and .dict()    *)
(* gives every field.                                                      *)
(***************************************************************************)
UserProfile(body) ==
  [user_id |-> body.user_id,
   name |-> FieldOr(body, "name", None),
   budget_style |-> FieldOr(body, "budget_style", None),
   preferred_transport |-> FieldOr(body, "preferred_transport", None),
   no_early_flights |-> FieldOr(body, "no_early_flights", FALSE),
   no_late_nights |-> FieldOr(body, "no_late_nights", FALSE),
   walking_tolerance |-> FieldOr(body, "walking_tolerance", None),
   food_preferences |-> FieldOr(body, "food_preferences", <<>>),
   transport_dislikes |-> FieldOr(body, "transport_dislikes", <<>>),
   accommodation_dislikes |-> FieldOr(body, "accommodation_dislikes", <<>>),
   typical_hotel_budget |-> FieldOr(body, "typical_hotel_budget", None),
   total_trips_booked |-> FieldOr(body, "total_trips_booked", 0)]

TripSlots(body) ==
  [destination |-> FieldOr(body, "destination", None),
   start_date |-> FieldOr(body, "start_date", None),
   end_date |-> FieldOr(body, "end_date", None),
   companions |-> FieldOr(body, "companions", None),
   budget_level |-> FieldOr(body, "budget_level", None),
   budget_min |-> FieldOr(body, "budget_min", None),
   budget_max |-> FieldOr(body, "budget_max", None),
   intent |-> FieldOr(body, "intent", None),
   constraints |-> FieldOr(body, "constraints", Some(<<>>))]

SessionState(body) ==
  [session_id |-> body.session_id,
   user_id |-> Some(body.user_id),
   trip_slots |-> TripSlots(FieldOr(body, "trip_slots", NoKeys)),
   clarifier_count |-> FieldOr(body, "clarifier_count", 0),
   conversation_stage |-> FieldOr(body, "conversation_stage", "clarifying")]

Assumption(text) == [text |-> text, source |-> "profile_preference"]

(***************************************************************************)
(* init_sample_data: user_profiles["user_demo_123"] = {...}.               *)
(***************************************************************************)
init_sample_data(profiles) ==
  Put(profiles, "user_demo_123",
      [user_id |-> "user_demo_123",
       name |-> Some("Rahul Kumar"),
       budget_style |-> Some("always_budget"),
       preferred_transport |-> Some("train"),
       no_early_flights |-> TRUE,
       no_late_nights |-> FALSE,
       walking_tolerance |-> Some("medium"),
       food_preferences |-> <<"vegetarian">>,
       transport_dislikes |-> <<"overnight_bus">>,
       accommodation_dislikes |-> <<"shared_bathroom">>,
       typical_hotel_budget |-> Some(1200),
       total_trips_booked |-> 5])

\* A 200 response with a JSON body.
Ok(body) == [status |-> 200, body |-> body]

\* raise HTTPException(status_code=404, detail=...)
HTTPException(status_code, detail) ==
  [status |-> status_code, body |-> [detail |-> detail]]

(***************************************************************************)
(* The state after the module is imported.                                 *)
(***************************************************************************)
Init ==
  /\ user_profiles = init_sample_data(EmptyDict)
  /\ sessions = NoKeys
  /\ request = [op |-> "startup"]
  /\ response = Ok([message |-> "startup"])

(***************************************************************************)
(* The requests the model submits.                                         *)
(***************************************************************************)
IdOf(i) == "u" \o ToString(i)

SidOf(i) == "s" \o ToString(i)

\* Path identifiers of the profile routes: the seeded one and MaxUsers others.
UserIds == {"user_demo_123"} \cup {IdOf(i) : i \in 1..MaxUsers}

\* Path identifiers of the session routes.
SessionIds == {"s0"} \cup {SidOf(i) : i \in 1..MaxSessions}

\* Bodies of POST /profile/{user_id}: one giving only the required user_id,
\* one giving every field; their user_id need not be the path's.
ProfileBodies ==
  { [user_id |-> "user_demo_123"],
    [user_id |-> "u1",
     name |-> Some("Asha"),
     budget_style |-> Some("luxury"),
     preferred_transport |-> Some("flight"),
     no_early_flights |-> FALSE,
     no_late_nights |-> TRUE,
     walking_tolerance |-> Some("high"),
     food_preferences |-> <<"vegan", "jain">>,
     transport_dislikes |-> <<>>,
     accommodation_dislikes |-> <<"hostel">>,
     typical_hotel_budget |-> Some(6000),
     total_trips_booked |-> 2] }

\* Bodies of POST /session for one session_id: the required fields only, and
\* every field (with a user_id that has no profile).
SessionBodies(sid) ==
  { [session_id |-> sid, user_id |-> "user_demo_123"],
    [session_id |-> sid,
     user_id |-> "ghost",
     trip_slots |-> [budget_level |-> Some("mid"), destination |-> Some("Pune")],
     clarifier_count |-> 2,
     conversation_stage |-> "planning"] }

\* Bodies of POST /session/{session_id}/slots: Dict[str, Any]; "note" is no
\* field of TripSlots.
SlotPayloads ==
  { NoKeys,
    [destination |-> Some("Goa"), note |-> Some("x")] }

\* Values of datetime.now().
Times == 1..MaxTime

(***************************************************************************)
(* Route handlers.                                                         *)
(***************************************************************************)
\* GET /
root ==
  /\ request' = [op |-> "root"]
  /\ response' = Ok([message |-> "Travel Memory API", version |-> "1.0.0"])
  /\ UNCHANGED <<user_profiles, sessions>>

\* The value get_profile returns: the stored dict, or a default built for the call.
get_profile_result(user_id) ==
  IF ~Has(user_profiles, user_id)
  THEN [user_id |-> user_id,
        name |-> None,
        budget_style |-> Some("mixed"),
        preferred_transport |-> None,
        no_early_flights |-> FALSE,
        no_late_nights |-> FALSE,
        walking_tolerance |-> Some("medium"),
        food_preferences |-> <<>>,
        transport_dislikes |-> <<>>,
        accommodation_dislikes |-> <<>>,
        typical_hotel_budget |-> None,
        total_trips_booked |-> 0]
  ELSE Get(user_profiles, user_id)

\* get_profile storing the default it builds (user_profiles.setdefault).
get_profile_setdefault(user_id) ==
  /\ request' = [op |-> "get_profile", user_id |-> user_id]
  /\ response' = Ok(get_profile_result(user_id))
  /\ user_profiles' = IF Has(user_profiles, user_id) THEN user_profiles
                      ELSE Put(user_profiles, user_id, get_profile_result(user_id))
  /\ UNCHANGED sessions

\* GET /profile/{user_id}
get_profile(user_id) ==
  /\ request' = [op |-> "get_profile", user_id |-> user_id]
  /\ response' = Ok(get_profile_result(user_id))
  /\ UNCHANGED <<user_profiles, sessions>>

\* update_profile storing under the body's own user_id instead of the path's.
update_profile_body_key(user_id, body) ==
  LET profile == UserProfile(body) IN
  /\ request' = [op |-> "update_profile", user_id |-> user_id, body |-> body]
  /\ user_profiles' = Put(user_profiles, profile.user_id, profile)
  /\ response' = Ok([status |-> "success", message |-> "Profile saved",
                     user_id |-> user_id])
  /\ UNCHANGED sessions

\* POST /profile/{user_id}
update_profile(user_id, body) ==
  LET profile == UserProfile(body) IN
  /\ request' = [op |-> "update_profile", user_id |-> user_id, body |-> body]
  /\ user_profiles' = Put(user_profiles, user_id, profile)
  /\ response' = Ok([status |-> "success", message |-> "Profile saved",
                     user_id |-> user_id])
  /\ UNCHANGED sessions

\* ', '.join(xs)
RECURSIVE Join(_)
Join(xs) ==
  IF Len(xs) = 0 THEN ""
  ELSE IF Len(xs) = 1 THEN xs[1]
  ELSE xs[1] \o ", " \o Join(Tail(xs))

\* "\n".join([f"* {a['text']}" for a in assumptions])
RECURSIVE FormatLines(_)
FormatLines(assumptions) ==
  IF Len(assumptions) = 0 THEN ""
  ELSE IF Len(assumptions) = 1 THEN "* " \o assumptions[1].text
  ELSE "* " \o assumptions[1].text \o "\n" \o FormatLines(Tail(assumptions))

\* assumptions.append(...) under a condition.
AppendIf(cond, assumptions, text) ==
  IF cond THEN Append(assumptions, Assumption(text)) ELSE assumptions

\* The if/elif chain on budget_style.
BudgetStep(profile, assumptions) ==
  LET budget_style == profile.budget_style IN
  IF budget_style = Some("always_budget")
  THEN Append(assumptions, Assumption("Budget hotels (Rs800-1500/night)"))
  ELSE IF budget_style = Some("mid_range")
  THEN Append(assumptions, Assumption("Mid-range hotels (Rs2000-4000/night)"))
  ELSE IF budget_style = Some("luxury")
  THEN Append(assumptions, Assumption("Premium hotels (Rs5000+/night)"))
  ELSE assumptions

\* The if/elif chain on walking_tolerance.
WalkingStep(profile, assumptions) ==
  LET walking == profile.walking_tolerance IN
  IF walking = Some("low")
  THEN Append(assumptions, Assumption("Minimizing walking (max 2km/day)"))
  ELSE IF walking = Some("high")
  THEN Append(assumptions, Assumption("Comfortable with long walks (5-8km/day)"))
  ELSE assumptions

\* f"Prioritizing {profile['preferred_transport']} when possible"
TransportText(profile) ==
  "Prioritizing "
    \o (IF profile.preferred_transport = None THEN "None"
        ELSE profile.preferred_transport[1])
    \o " when possible"

\* BuildAssumptions with the budget block placed before the transport block.
BuildAssumptions_budget_first(profile) ==
  LET a1 == AppendIf(profile.no_early_flights, <<>>,
                     "I'll avoid early morning departures")
      a2 == AppendIf(profile.no_late_nights, a1, "I'll avoid late night travel")
      a3 == BudgetStep(profile, a2)
      a4 == AppendIf(Truthy(profile.preferred_transport), a3, TransportText(profile))
      a5 == WalkingStep(profile, a4)
      a6 == AppendIf(profile.food_preferences # <<>>, a5,
                     "Food preferences: " \o Join(profile.food_preferences))
      a7 == AppendIf(profile.transport_dislikes # <<>>, a6,
                     "Avoiding: " \o Join(profile.transport_dislikes))
  IN a7

\* The list get_assumptions builds, append by append.
BuildAssumptions(profile) ==
  LET a1 == AppendIf(profile.no_early_flights, <<>>,
                     "I'll avoid early morning departures")
      a2 == AppendIf(profile.no_late_nights, a1, "I'll avoid late night travel")
      a3 == AppendIf(Truthy(profile.preferred_transport), a2, TransportText(profile))
      a4 == BudgetStep(profile, a3)
      a5 == WalkingStep(profile, a4)
      a6 == AppendIf(profile.food_preferences # <<>>, a5,
                     "Food preferences: " \o Join(profile.food_preferences))
      a7 == AppendIf(profile.transport_dislikes # <<>>, a6,
                     "Avoiding: " \o Join(profile.transport_dislikes))
  IN a7

\* AssumptionsBody without the else branch: an empty list is joined like any other.
AssumptionsBody_no_fallback(user_id, assumptions) ==
  [user_id |-> user_id,
   has_assumptions |-> assumptions # <<>>,
   count |-> Len(assumptions),
   assumptions |-> assumptions,
   formatted_text |-> FormatLines(assumptions)]

\* The body get_assumptions returns for the list it built.
AssumptionsBody(user_id, assumptions) ==
  IF assumptions # <<>>
  THEN [user_id |-> user_id,
        has_assumptions |-> TRUE,
        count |-> Len(assumptions),
        assumptions |-> assumptions,
        formatted_text |-> FormatLines(assumptions)]
  ELSE [user_id |-> user_id,
        has_assumptions |-> FALSE,
        count |-> 0,
        assumptions |-> <<>>,
        formatted_text |-> "No previous preferences found. Let's start fresh!"]

\* GET /profile/{user_id}/assumptions
get_assumptions(user_id) ==
  LET profile == get_profile_result(user_id) IN
  /\ request' = [op |-> "get_assumptions", user_id |-> user_id]
  /\ response' = Ok(AssumptionsBody(user_id, BuildAssumptions(profile)))
  /\ UNCHANGED <<user_profiles, sessions>>

\* update_session merging the new trip_slots into those already stored.
update_session_merge(body) ==
  LET session == SessionState(body)
      stored == IF session.session_id \in DOMAIN sessions
                THEN [session EXCEPT !.trip_slots =
                        [k \in DOMAIN sessions[session.session_id].trip_slots
                                 \cup DOMAIN session.trip_slots |->
                           IF k \in DOMAIN session.trip_slots
                           THEN session.trip_slots[k]
                           ELSE sessions[session.session_id].trip_slots[k]]]
                ELSE session
  IN
  /\ request' = [op |-> "update_session", body |-> body]
  /\ sessions' = SetItem(sessions, session.session_id, stored)
  /\ response' = Ok([status |-> "success", message |-> "Session saved",
                     session_id |-> session.session_id])
  /\ UNCHANGED user_profiles

\* POST /session
update_session(body) ==
  LET session == SessionState(body) IN
  /\ request' = [op |-> "update_session", body |-> body]
  /\ sessions' = SetItem(sessions, session.session_id, session)
  /\ response' = Ok([status |-> "success", message |-> "Session saved",
                     session_id |-> session.session_id])
  /\ UNCHANGED user_profiles

\* get_session storing the default it builds (sessions.setdefault).
get_session_setdefault(session_id) ==
  LET default == [session_id |-> session_id,
                  user_id |-> None,
                  trip_slots |-> NoKeys,
                  clarifier_count |-> 0,
                  conversation_stage |-> "clarifying"]
  IN
  /\ request' = [op |-> "get_session", session_id |-> session_id]
  /\ response' = Ok(IF session_id \notin DOMAIN sessions THEN default
                    ELSE sessions[session_id])
  /\ sessions' = IF session_id \in DOMAIN sessions THEN sessions
                 ELSE SetItem(sessions, session_id, default)
  /\ UNCHANGED user_profiles

\* GET /session/{session_id}
get_session(session_id) ==
  /\ request' = [op |-> "get_session", session_id |-> session_id]
  /\ response' = Ok(IF session_id \notin DOMAIN sessions
                    THEN [session_id |-> session_id,
                          user_id |-> None,
                          trip_slots |-> NoKeys,
                          clarifier_count |-> 0,
                          conversation_stage |-> "clarifying"]
                    ELSE sessions[session_id])
  /\ UNCHANGED <<user_profiles, sessions>>

\* An assignment in place of dict.update: the dict becomes slots.
DictReplace(d, slots) == slots

\* dict.update: the keys of slots take the values of slots, the others stay.
DictUpdate(d, slots) ==
  [k \in DOMAIN d \cup DOMAIN slots |-> IF k \in DOMAIN slots THEN slots[k] ELSE d[k]]

\* update_trip_slots creating the session it does not find.
update_trip_slots_upsert(session_id, slots) ==
  LET session == IF session_id \in DOMAIN sessions THEN sessions[session_id]
                 ELSE [session_id |-> session_id,
                       user_id |-> None,
                       trip_slots |-> NoKeys,
                       clarifier_count |-> 0,
                       conversation_stage |-> "clarifying"]
      merged == [session EXCEPT !.trip_slots = DictUpdate(@, slots)]
  IN
  /\ request' = [op |-> "update_trip_slots", session_id |-> session_id,
                 slots |-> slots]
  /\ sessions' = SetItem(sessions, session_id, merged)
  /\ response' = Ok([status |-> "success", session_id |-> session_id,
                     updated_slots |-> slots])
  /\ UNCHANGED user_profiles

\* POST /session/{session_id}/slots
update_trip_slots(session_id, slots) ==
  /\ request' = [op |-> "update_trip_slots", session_id |-> session_id,
                 slots |-> slots]
  /\ IF session_id \notin DOMAIN sessions
     THEN /\ response' = HTTPException(404, "Session not found")
          /\ UNCHANGED sessions
     ELSE LET session == sessions[session_id]
              merged == [session EXCEPT !.trip_slots = DictUpdate(@, slots)]
          IN /\ sessions' = SetItem(sessions, session_id, merged)
             /\ response' = Ok([status |-> "success", session_id |-> session_id,
                                updated_slots |-> slots])
  /\ UNCHANGED user_profiles

\* GET /debug/users
list_users ==
  /\ request' = [op |-> "list_users"]
  /\ response' = Ok([count |-> Len(user_profiles), users |-> Keys(user_profiles)])
  /\ UNCHANGED <<user_profiles, sessions>>

\* reset_data without the two clear() calls.
reset_data_no_clear ==
  /\ request' = [op |-> "reset_data"]
  /\ user_profiles' = init_sample_data(user_profiles)
  /\ sessions' = sessions
  /\ response' = Ok([status |-> "success",
                     message |-> "All data reset, sample user restored"])

\* reset_data without the call of init_sample_data.
reset_data_no_seed ==
  /\ request' = [op |-> "reset_data"]
  /\ user_profiles' = EmptyDict
  /\ sessions' = NoKeys
  /\ response' = Ok([status |-> "success",
                     message |-> "All data reset, sample user restored"])

\* POST /debug/reset
reset_data ==
  /\ request' = [op |-> "reset_data"]
  /\ user_profiles' = init_sample_data(EmptyDict)
  /\ sessions' = NoKeys
  /\ response' = Ok([status |-> "success",
                     message |-> "All data reset, sample user restored"])

\* GET /health
health(now) ==
  /\ request' = [op |-> "health"]
  /\ response' = Ok([status |-> "healthy", timestamp |-> now,
                     users_count |-> Len(user_profiles),
                     sessions_count |-> Cardinality(DOMAIN sessions)])
  /\ UNCHANGED <<user_profiles, sessions>>

Next ==
  \/ root
  \/ \E user_id \in UserIds : get_profile(user_id)
  \/ \E user_id \in UserIds, body \in ProfileBodies : update_profile(user_id, body)
  \/ \E user_id \in UserIds : get_assumptions(user_id)
  \/ \E sid \in SessionIds : \E body \in SessionBodies(sid) : update_session(body)
  \/ \E session_id \in SessionIds : get_session(session_id)
  \/ \E session_id \in SessionIds, slots \in SlotPayloads :
       update_trip_slots(session_id, slots)
  \/ list_users
  \/ reset_data
  \/ \E now \in Times : health(now)

Spec == Init /\ [][Next]_vars

(***************************************************************************)
(* The assumptions route over a wide range of stored profiles: the store   *)
(* holds the seed and, under "u1", one profile that POST /profile/u1 can   *)
(* have stored; the route is then read for "u1", the seed and an id that   *)
(* has no profile.                                                         *)
(***************************************************************************)
SeqsUpTo(S, n) == UNION {[1..m -> S] : m \in 0..n}

FmtProfiles ==
  [user_id : {"u1"},
   name : {None},
   budget_style : {None, Some("always_budget"), Some("mid_range"), Some("luxury"),
                   Some("mixed"), Some("backpacker")},
   preferred_transport : {None, Some(""), Some("train")},
   no_early_flights : BOOLEAN,
   no_late_nights : BOOLEAN,
   walking_tolerance : {None, Some("low"), Some("medium"), Some("high"),
                        Some("extreme")},
   food_preferences : SeqsUpTo({"vegetarian", "vegan"}, MaxListLen),
   transport_dislikes : SeqsUpTo({"overnight_bus"}, MaxListLen),
   accommodation_dislikes : {<<>>},
   typical_hotel_budget : {None},
   total_trips_booked : {0}]

FmtInit ==
  /\ \E profile \in FmtProfiles :
       user_profiles = Put(init_sample_data(EmptyDict), "u1", profile)
  /\ sessions = NoKeys
  /\ request = [op |-> "startup"]
  /\ response = Ok([message |-> "startup"])

FmtNext == \E user_id \in {"u1", "user_demo_123", "nobody"} : get_assumptions(user_id)

FmtSpec == FmtInit /\ [][FmtNext]_vars

(***************************************************************************)
(* Properties.                                                             *)
(***************************************************************************)
KeySet(d) == {d[i].key : i \in 1..Len(d)}

\* Every key of the function-dict d other than k is a key of e with the same
\* value, and e has no further key other than k.
SameButKey(d, e, k) ==
  /\ DOMAIN d \ {k} = DOMAIN e \ {k}
  /\ \A j \in DOMAIN d \ {k} : d[j] = e[j]

\* The same for the ordered dict.
SameExcept(d, e, k) ==
  /\ KeySet(d) \ {k} = KeySet(e) \ {k}
  /\ \A j \in KeySet(d) \ {k} : Get(d, j) = Get(e, j)

\* The default profile of the spec (section 4.1) for an id with no profile.
DefaultProfile(user_id) ==
  [user_id |-> user_id,
   name |-> None,
   budget_style |-> Some("mixed"),
   preferred_transport |-> None,
   no_early_flights |-> FALSE,
   no_late_nights |-> FALSE,
   walking_tolerance |-> Some("medium"),
   food_preferences |-> <<>>,
   transport_dislikes |-> <<>>,
   accommodation_dislikes |-> <<>>,
   typical_hotel_budget |-> None,
   total_trips_booked |-> 0]

\* The seed values of the spec (section 4.1).
SeedProfile ==
  [user_id |-> "user_demo_123",
   name |-> Some("Rahul Kumar"),
   budget_style |-> Some("always_budget"),
   preferred_transport |-> Some("train"),
   no_early_flights |-> TRUE,
   no_late_nights |-> FALSE,
   walking_tolerance |-> Some("medium"),
   food_preferences |-> <<"vegetarian">>,
   transport_dislikes |-> <<"overnight_bus">>,
   accommodation_dislikes |-> <<"shared_bathroom">>,
   typical_hotel_budget |-> Some(1200),
   total_trips_booked |-> 5]

\* The default session of the spec for an id with no session.
DefaultSession(session_id) ==
  [session_id |-> session_id,
   user_id |-> None,
   trip_slots |-> NoKeys,
   clarifier_count |-> 0,
   conversation_stage |-> "clarifying"]

\* C1: a step that handles update_profile(id, body) leaves under the path id
\* exactly the profile of the body (every field, none of the record stored
\* before), and leaves every other key, the body's own user_id included, as it
\* was: neither created nor changed; a get_profile(id) handled right after
\* returns that profile.
C1_ProfileRoundTrip ==
  [][ /\ request'.op = "update_profile" =>
           /\ Has(user_profiles', request'.user_id)
           /\ Get(user_profiles', request'.user_id) = UserProfile(request'.body)
           /\ SameExcept(user_profiles, user_profiles', request'.user_id)
           /\ sessions' = sessions
      /\ ( /\ request.op = "update_profile"
           /\ request'.op = "get_profile"
           /\ request'.user_id = request.user_id )
         => response' = Ok(UserProfile(request.body))
    ]_vars

\* C1 witness: a profile whose user_id is "u1" was written under the path id
\* user_demo_123, over the seed: it is stored there, and "u1" has no entry.
C1_Witness ==
  /\ request.op = "update_profile"
  /\ request.user_id = "user_demo_123"
  /\ request.body.user_id = "u1"
  /\ Get(user_profiles, "user_demo_123").name = Some("Asha")
  /\ ~Has(user_profiles, "u1")

\* C2: get_profile of an id that is no key of the profile mapping returns the
\* fixed default profile carrying that id, and the mapping, so the list of its
\* keys too, is the same after the call.
C2_DefaultProfileNotStored ==
  [][ ( /\ request'.op = "get_profile"
        /\ ~Has(user_profiles, request'.user_id) )
      => /\ response' = Ok(DefaultProfile(request'.user_id))
         /\ user_profiles' = user_profiles
         /\ Keys(user_profiles') = Keys(user_profiles)
    ]_vars

\* C2 witness: the default was returned for "u1", which is still no key.
C2_Witness ==
  /\ request.op = "get_profile"
  /\ request.user_id = "u1"
  /\ ~Has(user_profiles, "u1")
  /\ response.body.budget_style = Some("mixed")

\* C3: a step that handles reset_data leaves no session and exactly one
\* profile, the seed under user_demo_123, whatever was stored before; a
\* get_profile("user_demo_123") handled right after returns the seed values.
C3_ResetRestoresSeed ==
  [][ /\ request'.op = "reset_data" =>
           /\ sessions' = NoKeys
           /\ Keys(user_profiles') = <<"user_demo_123">>
           /\ Get(user_profiles', "user_demo_123") = SeedProfile
      /\ ( /\ request.op = "reset_data"
           /\ request'.op = "get_profile"
           /\ request'.user_id = "user_demo_123" )
         => response' = Ok(SeedProfile)
    ]_vars

\* C3 witness: the state a reset leaves: the seed alone and no session.
C3_Witness ==
  /\ request.op = "reset_data"
  /\ user_profiles = <<[key |-> "user_demo_123", value |-> SeedProfile]>>
  /\ sessions = NoKeys

\* C4: update_trip_slots on a session_id that is no key of the session mapping
\* answers 404 "Session not found" for every payload and changes neither
\* mapping; so it does right after a get_session of that id returned the
\* default, and right after a reset.
C4_SlotsOnUnknownSession ==
  [][ ( /\ request'.op = "update_trip_slots"
        /\ request'.session_id \notin DOMAIN sessions )
      => /\ response' = [status |-> 404, body |-> [detail |-> "Session not found"]]
         /\ sessions' = sessions
         /\ user_profiles' = user_profiles
    ]_vars

\* C4 witness: the empty payload was refused, and no session was created.
C4_Witness ==
  /\ request.op = "update_trip_slots"
  /\ request.slots = NoKeys
  /\ response.status = 404
  /\ request.session_id \notin DOMAIN sessions

\* C5: update_trip_slots on a stored session answers 200, echoes the payload as
\* updated_slots, and leaves as trip_slots the old ones overridden by the
\* payload: its keys are the old keys and the payload's, each payload key has
\* the payload's value, each other key its old value; the session's other
\* fields, the other sessions and the profiles are unchanged.
C5_SlotsMerge ==
  [][ ( /\ request'.op = "update_trip_slots"
        /\ request'.session_id \in DOMAIN sessions )
      => LET id == request'.session_id
             slots == request'.slots
             old == sessions[id]
             new == sessions'[id]
         IN /\ response'.status = 200
            /\ response'.body.updated_slots = slots
            /\ response'.body.session_id = id
            /\ id \in DOMAIN sessions'
            /\ DOMAIN new.trip_slots = DOMAIN old.trip_slots \cup DOMAIN slots
            /\ \A k \in DOMAIN slots : new.trip_slots[k] = slots[k]
            /\ \A k \in DOMAIN old.trip_slots \ DOMAIN slots :
                 new.trip_slots[k] = old.trip_slots[k]
            /\ new.session_id = old.session_id
            /\ new.user_id = old.user_id
            /\ new.clarifier_count = old.clarifier_count
            /\ new.conversation_stage = old.conversation_stage
            /\ SameButKey(sessions, sessions', id)
            /\ user_profiles' = user_profiles
    ]_vars

\* C5 witness: {"destination": "Goa", "note": "x"} was merged into slots
\* holding budget_level "mid" and destination "Pune", beside another stored
\* session: "mid" is kept, "Goa" replaces "Pune", "note" is added.
C5_Witness ==
  /\ request.op = "update_trip_slots"
  /\ request.slots = [destination |-> Some("Goa"), note |-> Some("x")]
  /\ response.status = 200
  /\ Cardinality(DOMAIN sessions) = 2
  /\ sessions[request.session_id].trip_slots.note = Some("x")
  /\ sessions[request.session_id].trip_slots.budget_level = Some("mid")
  /\ sessions[request.session_id].trip_slots.destination = Some("Goa")

\* The seven slots of the spec (section 4.2): whether slot i applies to p.
SlotHolds(p, i) ==
  CASE i = 1 -> p.no_early_flights
    [] i = 2 -> p.no_late_nights
    [] i = 3 -> p.preferred_transport \notin {None, Some("")}
    [] i = 4 -> p.budget_style \in
                  {Some("always_budget"), Some("mid_range"), Some("luxury")}
    [] i = 5 -> p.walking_tolerance \in {Some("low"), Some("high")}
    [] i = 6 -> p.food_preferences # <<>>
    [] i = 7 -> p.transport_dislikes # <<>>

BudgetTexts ==
  {"Budget hotels (Rs800-1500/night)", "Mid-range hotels (Rs2000-4000/night)",
   "Premium hotels (Rs5000+/night)"}

WalkingTexts ==
  {"Minimizing walking (max 2km/day)", "Comfortable with long walks (5-8km/day)"}

\* The sentence of slot i for p.
SlotText(p, i) ==
  CASE i = 1 -> "I'll avoid early morning departures"
    [] i = 2 -> "I'll avoid late night travel"
    [] i = 3 -> "Prioritizing " \o p.preferred_transport[1] \o " when possible"
    [] i = 4 -> ( CASE p.budget_style = Some("always_budget") ->
                         "Budget hotels (Rs800-1500/night)"
                    [] p.budget_style = Some("mid_range") ->
                         "Mid-range hotels (Rs2000-4000/night)"
                    [] p.budget_style = Some("luxury") ->
                         "Premium hotels (Rs5000+/night)" )
    [] i = 5 -> ( CASE p.walking_tolerance = Some("low") ->
                         "Minimizing walking (max 2km/day)"
                    [] p.walking_tolerance = Some("high") ->
                         "Comfortable with long walks (5-8km/day)" )
    [] i = 6 -> "Food preferences: " \o Join(p.food_preferences)
    [] i = 7 -> "Avoiding: " \o Join(p.transport_dislikes)

\* The slots that apply to p, in priority order.
RECURSIVE SlotsFrom(_, _)
SlotsFrom(p, i) ==
  IF i > 7 THEN <<>>
  ELSE (IF SlotHolds(p, i) THEN <<i>> ELSE <<>>) \o SlotsFrom(p, i + 1)

\* The positions of a text in a list of assumptions.
Positions(assumptions, text) ==
  {j \in 1..Len(assumptions) : assumptions[j].text = text}

\* C6: the list the assumptions route returns for a stored profile is the
\* sentences of the slots that apply, in the order 1..7, each with source
\* "profile_preference"; it holds at most one budget and one walking sentence;
\* and when the early-departure, the "Prioritizing train" and a budget sentence
\* are all due, they come in that order.
C6_AssumptionsInPriorityOrder ==
  ( request.op = "get_assumptions" /\ Has(user_profiles, request.user_id) ) =>
    LET p == Get(user_profiles, request.user_id)
        got == response.body.assumptions
        due == SlotsFrom(p, 1)
    IN /\ Len(got) = Len(due)
       /\ \A j \in 1..Len(got) :
            /\ got[j].text = SlotText(p, due[j])
            /\ got[j].source = "profile_preference"
       /\ Cardinality({j \in 1..Len(got) : got[j].text \in BudgetTexts}) <= 1
       /\ Cardinality({j \in 1..Len(got) : got[j].text \in WalkingTexts}) <= 1
       /\ ( /\ p.no_early_flights
            /\ p.preferred_transport = Some("train")
            /\ SlotHolds(p, 4) )
          => \E a \in Positions(got, "I'll avoid early morning departures"),
                b \in Positions(got, "Prioritizing train when possible"),
                c \in {j \in 1..Len(got) : got[j].text \in BudgetTexts} :
               a < b /\ b < c

\* C6 witness: all seven slots applied to the stored profile.
C6_Witness ==
  /\ request.op = "get_assumptions"
  /\ request.user_id = "u1"
  /\ Get(user_profiles, "u1").budget_style = Some("mid_range")
  /\ Get(user_profiles, "u1").preferred_transport = Some("train")
  /\ response.body.count = 7

\* Every optional field of p unset or false, every list empty.
NothingSet(p) ==
  /\ p.name = None
  /\ p.budget_style = None
  /\ p.preferred_transport = None
  /\ ~p.no_early_flights
  /\ ~p.no_late_nights
  /\ p.walking_tolerance = None
  /\ p.food_preferences = <<>>
  /\ p.transport_dislikes = <<>>
  /\ p.accommodation_dislikes = <<>>
  /\ p.typical_hotel_budget = None

FallbackText == "No previous preferences found. Let's start fresh!"

\* C7: in every answer of the assumptions route count is the length of the
\* list, has_assumptions is true exactly when count > 0 and formatted_text is
\* the fallback exactly when count = 0; a stored profile with nothing set, and
\* an id with no profile (the default), give count 0.
C7_CountFlagAndFallback ==
  request.op = "get_assumptions" =>
    LET body == response.body IN
    /\ body.count = Len(body.assumptions)
    /\ body.has_assumptions <=> body.count > 0
    /\ body.formatted_text = FallbackText <=> body.count = 0
    /\ body.user_id = request.user_id
    /\ ( Has(user_profiles, request.user_id)
         /\ NothingSet(Get(user_profiles, request.user_id)) )
       => /\ body.count = 0
          /\ body.has_assumptions = FALSE
          /\ body.assumptions = <<>>
          /\ body.formatted_text = FallbackText
    /\ ~Has(user_profiles, request.user_id)
       => /\ body.count = 0
          /\ body.formatted_text = FallbackText

\* C7 witness: the route answered for a stored profile with nothing set.
C7_Witness ==
  /\ request.op = "get_assumptions"
  /\ Has(user_profiles, request.user_id)
  /\ NothingSet(Get(user_profiles, request.user_id))
  /\ response.body.has_assumptions = FALSE
  /\ response.body.formatted_text = FallbackText

ReadOps == {"get_profile", "get_assumptions", "get_session", "list_users", "health"}

\* C8 as stated: a step that handles a read changes neither mapping, and a
\* read handled again right after itself returns the same result.
C8_ReadsRepeatExactly ==
  [][ request'.op \in ReadOps =>
        /\ user_profiles' = user_profiles
        /\ sessions' = sessions
        /\ request' = request => response' = response
    ]_vars

\* C8 as amended: a step that handles a read changes neither mapping (same
\* keys in the same order, same values, same counts); a read handled again
\* right after itself returns the same result, but for health, which returns
\* the same status, users_count and sessions_count and its own timestamp.
C8_ReadsChangeNothing ==
  [][ request'.op \in ReadOps =>
        /\ user_profiles' = user_profiles
        /\ sessions' = sessions
        /\ (request' = request /\ request.op # "health") => response' = response
        /\ (request' = request /\ request.op = "health") =>
             /\ response'.status = response.status
             /\ response'.body.status = response.body.status
             /\ response'.body.users_count = response.body.users_count
             /\ response'.body.sessions_count = response.body.sessions_count
    ]_vars

\* C8 witness: get_session returned the default for an id that is still no
\* key, while a second profile is stored.
C8_Witness ==
  /\ request.op = "get_session"
  /\ request.session_id \notin DOMAIN sessions
  /\ response.body = DefaultSession(request.session_id)
  /\ Len(user_profiles) = 2

\* C9: a step that handles update_session(body) leaves under the body's
\* session_id exactly the session of the body (none of the session stored
\* before, merged slots included) and every other session as it was; a
\* get_session of that id handled right after returns it; get_session of an id
\* that is no key returns the default session and stores nothing.
C9_SessionRoundTrip ==
  [][ /\ request'.op = "update_session" =>
           LET s == SessionState(request'.body) IN
           /\ s.session_id \in DOMAIN sessions'
           /\ sessions'[s.session_id] = s
           /\ SameButKey(sessions, sessions', s.session_id)
           /\ user_profiles' = user_profiles
      /\ ( /\ request.op = "update_session"
           /\ request'.op = "get_session"
           /\ request'.session_id = request.body.session_id )
         => response' = Ok(SessionState(request.body))
      /\ ( /\ request'.op = "get_session"
           /\ request'.session_id \notin DOMAIN sessions )
         => /\ response' = Ok(DefaultSession(request'.session_id))
            /\ sessions' = sessions
            /\ Cardinality(DOMAIN sessions') = Cardinality(DOMAIN sessions)
    ]_vars

\* C9 witness: a stored session, written with every field given, was read back.
C9_Witness ==
  /\ request.op = "get_session"
  /\ request.session_id \in DOMAIN sessions
  /\ response.body = sessions[request.session_id]
  /\ response.body.user_id = Some("ghost")
  /\ "note" \notin DOMAIN response.body.trip_slots

\* What every request finds: the seed's key is there, and the counts say so.
SeedKeyPresent ==
  /\ Has(user_profiles, "user_demo_123")
  /\ Len(user_profiles) >= 1
  /\ request.op = "health" => response.body.users_count >= 1
  /\ request.op = "list_users" =>
       /\ response.body.count >= 1
       /\ \E j \in 1..Len(response.body.users) :
            response.body.users[j] = "user_demo_123"

\* C10: in every state between two handlers user_demo_123 is a key of the
\* profile mapping, so health's users_count and the listing's count are at
\* least 1; and no handler but reset_data removes a key from either mapping.
C10_SeedKeyAlwaysPresent ==
  /\ SeedKeyPresent
  /\ [][ /\ SeedKeyPresent'
         /\ request'.op # "reset_data" =>
              /\ KeySet(user_profiles) \subseteq KeySet(user_profiles')
              /\ DOMAIN sessions \subseteq DOMAIN sessions'
       ]_vars

\* C10 witness: health counts one user, the seed, and no session.
C10_Witness ==
  /\ request.op = "health"
  /\ response.body.users_count = 1
  /\ response.body.sessions_count = 0
  /\ Keys(user_profiles) = <<"user_demo_123">>

====
